---- MODULE Spec2Model ----
(***************************************************************************)
(* Model of tutorials/PytorchTensorflowMnist.ipynb: a notebook whose code  *)
(* cells define a small convolutional network, train it on MNIST, save a   *)
(* checkpoint, export the reloaded model to ONNX, import the ONNX file     *)
(* into Tensorflow, classify two pictures and export the Tensorflow graph. *)
(* The cells run one after the other in one kernel; a cell that raises     *)
(* stops the run.                                                          *)
(***************************************************************************)
EXTENDS Integers, Sequences, FiniteSets, TLC

(***************************************************************************)
(* Bounds of the model (sizes of the data the notebook does not fix).      *)
(***************************************************************************)
\* number of pictures in the training set handed to train_loader
TrainSetSize == 19300
\* number of pictures in the test set handed to test_loader
TestSetSize == 2500
\* largest batch dimension N tried on Net.forward
MaxBatch == 24

(***************************************************************************)
(* Command line tokens.  A token is an option name or the text of a        *)
(* number; argparse converts the text of a number with int().              *)
(***************************************************************************)
Opt(name) == [flag |-> name, digits |-> <<>>]
Num(ds) == [flag |-> "", digits |-> ds]

RECURSIVE IntOf(_)
IntOf(ds) == IF ds = <<>> THEN 0
             ELSE 10 * IntOf(SubSeq(ds, 1, Len(ds) - 1)) + ds[Len(ds)]

\* parser.add_argument(...) defaults
Defaults == [batch_size |-> 64, test_batch_size |-> 1000, epochs |-> 10,
             no_cuda |-> FALSE, seed |-> 1, log_interval |-> 10]

IntOptions == {"--batch-size", "--test-batch-size", "--epochs", "--seed", "--log-interval"}

Dest(name) == CASE name = "--batch-size" -> "batch_size"
                [] name = "--test-batch-size" -> "test_batch_size"
                [] name = "--epochs" -> "epochs"
                [] name = "--seed" -> "seed"
                [] name = "--log-interval" -> "log_interval"

RECURSIVE ParseFrom(_, _, _)
ParseFrom(tokens, i, ns) ==
    IF i > Len(tokens) THEN ns
    ELSE IF tokens[i].flag = "--no-cuda"
         THEN ParseFrom(tokens, i + 1, [ns EXCEPT !.no_cuda = TRUE])
    ELSE IF tokens[i].flag \in IntOptions /\ i < Len(tokens) /\ tokens[i + 1].digits # <<>>
         THEN ParseFrom(tokens, i + 2,
                        [ns EXCEPT ![Dest(tokens[i].flag)] = IntOf(tokens[i + 1].digits)])
    ELSE ns

\* parser.parse_args(list)
parse_args(tokens) == ParseFrom(tokens, 1, Defaults)

\* the list the notebook passes: ['--epochs', '60', '--log-interval', '300']
NotebookArgv == << Opt("--epochs"), Num(<<6, 0>>), Opt("--log-interval"), Num(<<3, 0, 0>>) >>

\* other command lines the parser accepts, used to exercise the device choice
OtherArgv == { << Opt("--epochs"), Num(<<2>>), Opt("--log-interval"), Num(<<3>>), Opt("--no-cuda") >>,
               << Opt("--no-cuda"), Opt("--epochs"), Num(<<1>>) >> }

(***************************************************************************)
(* Tensor shapes and Net.                                                  *)
(***************************************************************************)
RECURSIVE Numel(_)
Numel(shape) == IF shape = <<>> THEN 1 ELSE shape[1] * Numel(Tail(shape))

Conv2d_Padded(shape, cin, cout, k) ==
    IF Len(shape) = 4 /\ shape[2] = cin THEN << shape[1], cout, shape[3], shape[4] >> ELSE <<>>

\* nn.Conv2d(cin, cout, kernel_size=k), stride 1, no padding, on N x C x H x W
Conv2d(shape, cin, cout, k) ==
    IF Len(shape) = 4 /\ shape[2] = cin /\ shape[3] >= k /\ shape[4] >= k
    THEN << shape[1], cout, shape[3] - k + 1, shape[4] - k + 1 >>
    ELSE <<>>

\* F.max_pool2d(x, k): window k, stride k, floor mode
max_pool2d(shape, k) ==
    IF Len(shape) = 4 /\ shape[3] >= k /\ shape[4] >= k
    THEN << shape[1], shape[2], shape[3] \div k, shape[4] \div k >>
    ELSE <<>>

\* x.view(-1, cols): the first dimension is inferred from the element count
view(shape, cols) ==
    IF shape # <<>> /\ Numel(shape) % cols = 0
    THEN << Numel(shape) \div cols, cols >>
    ELSE <<>>

\* nn.Linear(fin, fout) on a 2-d input
Linear(shape, fin, fout) ==
    IF Len(shape) = 2 /\ shape[2] = fin THEN << shape[1], fout >> ELSE <<>>

\* the shape-preserving steps of forward: F.relu, Dropout2d, F.dropout, F.log_softmax
conv1_pool(x) == max_pool2d(Conv2d(x, 1, 10, 5), 2)
conv2_pool(x) == max_pool2d(Conv2d(x, 10, 20, 5), 2)
flatten(x) == view(x, 320)
fc1(x) == Linear(x, 320, 50)
fc2(x) == Linear(x, 50, 10)

\* Net.forward: the shape of the output for an input of shape x (<<>> = raises)
forward(x) == fc2(fc1(flatten(conv2_pool(conv1_pool(x)))))

\* Net(): fresh parameters on the CPU, nn.Module starts in training mode
Net(name) == [kind |-> "Net", init |-> name, steps |-> 0, training |-> TRUE, device |-> "cpu"]

\* module.to(device)
to(m, d) == [m EXCEPT !.device = d]

(***************************************************************************)
(* Data loaders.                                                           *)
(***************************************************************************)
DataLoader(size, batch_size, opts) == [size |-> size, batch_size |-> batch_size, shuffle |-> TRUE, opts |-> opts]

\* len(loader): number of batches, the last one may be short
LoaderLen(loader) == (loader.size + loader.batch_size - 1) \div loader.batch_size

\* len(data) of batch number i (counted from 0)
BatchLen(loader, i) ==
    IF (i + 1) * loader.batch_size <= loader.size THEN loader.batch_size
    ELSE loader.size - i * loader.batch_size


(***************************************************************************)
(* Second code cell, settings (lines 142-148).                             *)
(***************************************************************************)
UseCuda_IgnoresFlag(a, available) == available

\* use_cuda = not args.no_cuda and torch.cuda.is_available()
UseCuda(a, available) == ~a.no_cuda /\ available

\* torch.device("cuda" if use_cuda else "cpu")
Device(uc) == IF uc THEN "cuda" ELSE "cpu"

\* kwargs = {'num_workers': 1, 'pin_memory': True} if use_cuda else {}
\* a dict is modelled as the set of its items, a bool value as 1
Kwargs(uc) == IF uc THEN {<<"num_workers", 1>>, <<"pin_memory", 1>>} ELSE {}

LastEpoch_OneShort(a) == a.epochs - 1

\* for epoch in range(1, args.epochs + 1): the last value of epoch
LastEpoch(a) == a.epochs

\* if batch_idx % args.log_interval == 0
LogsStatus(a, idx) == idx % a.log_interval = 0

(***************************************************************************)
(* Files and pictures.                                                     *)
(***************************************************************************)
PthPath == "output/mnist.pth"
OnnxPath == "output/mnist.onnx"
PbPath == "output/mnist.pb"
OutputPaths == {PthPath, OnnxPath, PbPath}

Absent == [kind |-> "absent"]
None == [kind |-> "None"]

\* model.state_dict(): the parameter values, without the mode of the module
state_dict(m) == [kind |-> "state_dict", init |-> m.init, steps |-> m.steps]

load_state_dict_Keeps(m, sd) == m

\* module.load_state_dict(sd): the parameters are replaced, the mode is kept
load_state_dict(m, sd) == [m EXCEPT !.init = sd.init, !.steps = sd.steps]

\* optimizer.step(): one update of the parameters
optimizer_step(m) == [m EXCEPT !.steps = m.steps + 1]

\* model.train() / model.eval()
set_mode(m, training) == [m EXCEPT !.training = training]

\* what the two sample pictures may look like on disk
Pictures == { [size |-> <<28, 28>>, mode |-> "L"],
              [size |-> <<40, 30>>, mode |-> "RGB"],
              [size |-> <<30, 40>>, mode |-> "RGBA"] }

\* Image.resize((w, h))
resize(im, size) == [im EXCEPT !.size = size]

convert_Skipped(im, mode) == im

\* Image.convert(mode)
convert(im, mode) == [im EXCEPT !.mode = mode]

\* np.asarray(img): height x width, with a channel axis unless the mode is 'L'
asarray(im) == CASE im.mode = "L" -> << im.size[2], im.size[1] >>
                 [] im.mode = "RGB" -> << im.size[2], im.size[1], 3 >>
                 [] im.mode = "RGBA" -> << im.size[2], im.size[1], 4 >>

\* a[np.newaxis, np.newaxis, :, :]
newaxis2(shape) == <<1, 1>> \o shape

\* the array handed to tf_rep.run for a picture
RunInput(im) == newaxis2(asarray(convert(resize(im, <<28, 28>>), "L")))

\* torch.randn(1, 1, 28, 28)
DummyShape == <<1, 1, 28, 28>>

(***************************************************************************)
(* State of one run of the notebook.                                       *)
(***************************************************************************)
VARIABLES
    pc,              \* the statement the kernel executes next
    raised,          \* the statement that raised, "" while none did
    argv,            \* the list handed to parser.parse_args
    cuda_available,  \* what torch.cuda.is_available() answers on this machine
    args, use_cuda, device, kwargs, train_loader, test_loader,
    model,           \* the name model: the Net of line 164, the ModelProto of line 239
    trained_model, dummy_input, tf_rep,
    epoch, batch_idx,
    output,          \* shape of the last output of model(data)
    status,          \* status lines of train() in the running epoch
    calls, last_call,\* library and function calls made so far
    returned,        \* the calls that returned normally
    files, written,  \* the output files, and those written in this run
    runs,            \* the arguments of the tf_rep.run calls
    x0, x, fpc       \* a single forward pass followed layer by layer

vars == << pc, raised, argv, cuda_available, args, use_cuda, device, kwargs,
           train_loader, test_loader, model, trained_model, dummy_input, tf_rep,
           epoch, batch_idx, output, status, calls, last_call, returned, files,
           written, runs, x0, x, fpc >>

settings == << args, use_cuda, device, kwargs, train_loader, test_loader >>
fwd == << x0, x, fpc >>

Calls == {"train", "test", "save", "load", "export", "onnx_load", "prepare",
          "run", "export_graph"}

NoStatus == [lines |-> 0, at |-> 0, gap |-> 0]

\* a checkpoint left in output/ by an earlier run of the notebook
Earlier == [kind |-> "state_dict", init |-> "earlier", steps |-> 0]

Start(av) ==
    /\ pc = "define"
    /\ raised = ""
    /\ argv = av
    /\ cuda_available \in BOOLEAN
    /\ args = None /\ use_cuda = FALSE /\ device = "" /\ kwargs = {}
    /\ train_loader = None /\ test_loader = None
    /\ model = None /\ trained_model = None /\ tf_rep = None
    /\ dummy_input = <<>>
    /\ epoch = 0 /\ batch_idx = 0
    /\ output = <<>>
    /\ status = NoStatus
    /\ calls = [c \in Calls |-> 0]
    /\ returned = [c \in Calls |-> 0]
    /\ last_call = ""
    /\ files \in { [p \in OutputPaths |-> Absent],
                   [p \in OutputPaths |-> IF p = PthPath THEN Earlier ELSE Absent] }
    /\ written = {}
    /\ runs = <<>>

Init == Start(NotebookArgv) /\ x0 = <<>> /\ x = <<>> /\ fpc = "idle"

Call(c) == [calls EXCEPT ![c] = calls[c] + 1]
Return(c) == [returned EXCEPT ![c] = returned[c] + 1]

(***************************************************************************)
(* Cell 1 (lines 47-68): imports and class Net.                            *)
(***************************************************************************)
DefineNet ==
    /\ pc = "define"
    /\ pc' = "settings"
    /\ UNCHANGED << raised, argv, cuda_available, settings, model, trained_model,
                    dummy_input, tf_rep, epoch, batch_idx, output, status, calls,
                    last_call, returned, files, written, runs, fwd >>

(***************************************************************************)
(* Cell 2 (lines 120-169): settings, loaders, model, optimizer, epochs.    *)
(***************************************************************************)
Settings ==
    /\ pc = "settings"
    /\ args' = parse_args(argv)
    /\ use_cuda' = UseCuda(args', cuda_available)
    /\ device' = Device(use_cuda')
    /\ kwargs' = Kwargs(use_cuda')
    /\ train_loader' = DataLoader(TrainSetSize, args'.batch_size, kwargs')
    /\ test_loader' = DataLoader(TestSetSize, args'.test_batch_size, kwargs')
    /\ model' = to(Net("model"), device')
    /\ pc' = "epochs"
    /\ UNCHANGED << raised, argv, cuda_available, trained_model, dummy_input, tf_rep,
                    epoch, batch_idx, output, status, calls, last_call, returned,
                    files, written, runs, fwd >>

\* the for statement takes the next epoch and calls train(), which starts with model.train()
TrainCall ==
    /\ pc = "epochs"
    /\ epoch < LastEpoch(args)
    /\ epoch' = epoch + 1
    /\ model' = set_mode(model, TRUE)
    /\ batch_idx' = 0
    /\ status' = NoStatus
    /\ calls' = Call("train")
    /\ last_call' = "train"
    /\ pc' = "train"
    /\ UNCHANGED << raised, argv, cuda_available, settings, trained_model, dummy_input,
                    tf_rep, output, returned, files, written, runs, fwd >>

EpochsDone_SkipsSave ==
    /\ pc = "epochs"
    /\ epoch >= LastEpoch(args)
    /\ pc' = "load"
    /\ UNCHANGED << raised, argv, cuda_available, settings, model, trained_model,
                    dummy_input, tf_rep, epoch, batch_idx, output, status, calls,
                    last_call, returned, files, written, runs, fwd >>

\* the for statement is exhausted: the cell ends
EpochsDone ==
    /\ pc = "epochs"
    /\ epoch >= LastEpoch(args)
    /\ pc' = "save"
    /\ UNCHANGED << raised, argv, cuda_available, settings, model, trained_model,
                    dummy_input, tf_rep, epoch, batch_idx, output, status, calls,
                    last_call, returned, files, written, runs, fwd >>

\* one pass of the loop of train() (lines 91-101)
TrainBatch ==
    /\ pc = "train"
    /\ batch_idx < LoaderLen(train_loader)
    /\ output' = forward(<< BatchLen(train_loader, batch_idx), 1, 28, 28 >>)
    /\ output' # <<>>
    /\ model' = optimizer_step(model)
    /\ status' = IF LogsStatus(args, batch_idx)
                 THEN [lines |-> status.lines + 1, at |-> batch_idx + 1,
                       gap |-> batch_idx + 1 - status.at]
                 ELSE status
    /\ batch_idx' = batch_idx + 1
    /\ UNCHANGED << pc, raised, argv, cuda_available, settings, trained_model,
                    dummy_input, tf_rep, epoch, calls, last_call, returned, files,
                    written, runs, fwd >>

\* train() returns and test() is called, which starts with model.eval()
TestCall ==
    /\ pc = "train"
    /\ batch_idx = LoaderLen(train_loader)
    /\ model' = set_mode(model, FALSE)
    /\ batch_idx' = 0
    /\ calls' = Call("test")
    /\ last_call' = "test"
    /\ returned' = Return("train")
    /\ pc' = "test"
    /\ UNCHANGED << raised, argv, cuda_available, settings, trained_model, dummy_input,
                    tf_rep, epoch, output, status, files, written, runs, fwd >>

\* one pass of the loop of test() (lines 108-113), under torch.no_grad()
TestBatch ==
    /\ pc = "test"
    /\ batch_idx < LoaderLen(test_loader)
    /\ output' = forward(<< BatchLen(test_loader, batch_idx), 1, 28, 28 >>)
    /\ output' # <<>>
    /\ batch_idx' = batch_idx + 1
    /\ UNCHANGED << pc, raised, argv, cuda_available, settings, model, trained_model,
                    dummy_input, tf_rep, epoch, status, calls, last_call, returned,
                    files, written, runs, fwd >>

\* test() prints its summary and returns to the for statement
TestReturn ==
    /\ pc = "test"
    /\ batch_idx = LoaderLen(test_loader)
    /\ returned' = Return("test")
    /\ pc' = "epochs"
    /\ UNCHANGED << raised, argv, cuda_available, settings, model, trained_model,
                    dummy_input, tf_rep, epoch, batch_idx, output, status, calls,
                    last_call, files, written, runs, fwd >>

(***************************************************************************)
(* Cell 3 (line 186): torch.save(model.state_dict(), 'output/mnist.pth').  *)
(***************************************************************************)
Save ==
    /\ pc = "save"
    /\ files' = [files EXCEPT ![PthPath] = state_dict(model)]
    /\ written' = written \cup {PthPath}
    /\ calls' = Call("save")
    /\ returned' = Return("save")
    /\ last_call' = "save"
    /\ pc' = "load"
    /\ UNCHANGED << raised, argv, cuda_available, settings, model, trained_model,
                    dummy_input, tf_rep, epoch, batch_idx, output, status, runs, fwd >>

(***************************************************************************)
(* Cell 4 (lines 206-211): reload the checkpoint, export to ONNX.          *)
(***************************************************************************)
\* trained_model = Net(); trained_model.load_state_dict(torch.load('output/mnist.pth'))
Load ==
    /\ pc = "load"
    /\ files[PthPath].kind = "state_dict"
    /\ trained_model' = load_state_dict(Net("trained_model"), files[PthPath])
    /\ calls' = Call("load")
    /\ returned' = Return("load")
    /\ last_call' = "load"
    /\ pc' = "export"
    /\ UNCHANGED << raised, argv, cuda_available, settings, model, dummy_input, tf_rep,
                    epoch, batch_idx, output, status, files, written, runs, fwd >>

\* dummy_input = ...; torch.onnx.export(trained_model, dummy_input, "output/mnist.onnx")
\* the exporter runs trained_model once on dummy_input and writes the traced graph
Export ==
    /\ pc = "export"
    /\ dummy_input' = DummyShape
    /\ forward(dummy_input') # <<>>
    /\ files' = [files EXCEPT ![OnnxPath] =
                    [kind |-> "onnx", init |-> trained_model.init,
                     steps |-> trained_model.steps, input |-> dummy_input',
                     output |-> forward(dummy_input')]]
    /\ written' = written \cup {OnnxPath}
    /\ calls' = Call("export")
    /\ returned' = Return("export")
    /\ last_call' = "export"
    /\ pc' = "onnx_load"
    /\ UNCHANGED << raised, argv, cuda_available, settings, model, trained_model, tf_rep,
                    epoch, batch_idx, output, status, runs, fwd >>

(***************************************************************************)
(* Cell 5 (lines 239-242): import the ONNX file into Tensorflow.           *)
(***************************************************************************)
\* model = onnx.load('output/mnist.onnx'): the name model is bound anew
OnnxLoad ==
    /\ pc = "onnx_load"
    /\ files[OnnxPath].kind = "onnx"
    /\ model' = [files[OnnxPath] EXCEPT !.kind = "ModelProto"]
    /\ calls' = Call("onnx_load")
    /\ returned' = Return("onnx_load")
    /\ last_call' = "onnx_load"
    /\ pc' = "prepare"
    /\ UNCHANGED << raised, argv, cuda_available, settings, trained_model, dummy_input,
                    tf_rep, epoch, batch_idx, output, status, files, written, runs, fwd >>

\* tf_rep = prepare(model)
Prepare ==
    /\ pc = "prepare"
    /\ tf_rep' = [model EXCEPT !.kind = "TensorflowRep"]
    /\ calls' = Call("prepare")
    /\ returned' = Return("prepare")
    /\ last_call' = "prepare"
    /\ pc' = "explore"
    /\ UNCHANGED << raised, argv, cuda_available, settings, model, trained_model,
                    dummy_input, epoch, batch_idx, output, status, files, written,
                    runs, fwd >>

(***************************************************************************)
(* Cell 6 (lines 259-266): print tf_rep.inputs, outputs, tensor_dict.      *)
(***************************************************************************)
Explore ==
    /\ pc = "explore"
    /\ tf_rep.kind = "TensorflowRep"
    /\ pc' = "run1"
    /\ UNCHANGED << raised, argv, cuda_available, settings, model, trained_model,
                    dummy_input, tf_rep, epoch, batch_idx, output, status, calls,
                    last_call, returned, files, written, runs, fwd >>

(***************************************************************************)
(* Cell 7 (lines 286-296): classify assets/two.png and assets/three.png.   *)
(***************************************************************************)
\* img = Image.open(path).resize((28, 28)).convert('L'); output = tf_rep.run(...)
\* the graph accepts only the input shape it was traced with
Run(at, path, next) ==
    /\ pc = at
    /\ \E im \in Pictures :
        LET arr == RunInput(im)
        IN  /\ runs' = Append(runs, [path |-> path, shape |-> arr, rep |-> tf_rep])
            /\ calls' = Call("run")
            /\ last_call' = "run"
            /\ IF arr = tf_rep.input
               THEN /\ output' = tf_rep.output
                    /\ returned' = Return("run")
                    /\ pc' = next
                    /\ raised' = raised
               ELSE /\ pc' = "failed"
                    /\ raised' = at
                    /\ UNCHANGED << output, returned >>
    /\ UNCHANGED << argv, cuda_available, settings, model, trained_model, dummy_input,
                    tf_rep, epoch, batch_idx, status, files, written, fwd >>

Run1 == Run("run1", "assets/two.png", "run2")
Run2 == Run("run2", "assets/three.png", "export_graph")

(***************************************************************************)
(* Cell 8 (line 312): tf_rep.export_graph('output/mnist.pb').              *)
(***************************************************************************)
ExportGraph ==
    /\ pc = "export_graph"
    /\ files' = [files EXCEPT ![PbPath] = [tf_rep EXCEPT !.kind = "pb"]]
    /\ written' = written \cup {PbPath}
    /\ calls' = Call("export_graph")
    /\ returned' = Return("export_graph")
    /\ last_call' = "export_graph"
    /\ pc' = "done"
    /\ UNCHANGED << raised, argv, cuda_available, settings, model, trained_model,
                    dummy_input, tf_rep, epoch, batch_idx, output, status, runs, fwd >>

(***************************************************************************)
(* A library call raises: the exception is not caught anywhere in the      *)
(* notebook, the cell stops and the cells after it are not run.            *)
(***************************************************************************)
Raising == {"define", "settings", "train", "test", "save", "load", "export",
            "onnx_load", "prepare", "explore", "run1", "run2", "export_graph"}

\* the call a statement consists of, when it is a single library call
CallAt(at) == IF at \in {"save", "load", "export", "onnx_load", "prepare", "export_graph"}
              THEN at ELSE ""

\* the file a statement writes
Target(at) == CASE at = "save" -> PthPath
                [] at = "export" -> OnnxPath
                [] at = "export_graph" -> PbPath
                [] OTHER -> ""

AfterRaise_Retries == pc

\* where the kernel goes when a statement raises: nowhere
AfterRaise == "failed"

Raise ==
    /\ pc \in Raising
    /\ (pc = "train" => batch_idx < LoaderLen(train_loader))
    /\ (pc = "test" => batch_idx < LoaderLen(test_loader))
    /\ raised' = pc
    /\ pc' = AfterRaise
    /\ calls' = IF CallAt(pc) # "" THEN Call(CallAt(pc)) ELSE calls
    /\ last_call' = IF CallAt(pc) # "" THEN CallAt(pc) ELSE last_call
    /\ \E partial \in BOOLEAN :
        IF partial /\ Target(pc) # ""
        THEN /\ files' = [files EXCEPT ![Target(pc)] = [kind |-> "partial"]]
             /\ written' = written \cup {Target(pc)}
        ELSE UNCHANGED << files, written >>
    /\ UNCHANGED << argv, cuda_available, settings, model, trained_model, dummy_input,
                    tf_rep, epoch, batch_idx, output, status, returned, runs, fwd >>

(***************************************************************************)
(* Net.forward (lines 62-68) followed statement by statement.              *)
(***************************************************************************)
pipeline == << pc, raised, argv, cuda_available, settings, model, trained_model,
               dummy_input, tf_rep, epoch, batch_idx, output, status, calls,
               last_call, returned, files, written, runs >>

Layer(before, after, shape) ==
    /\ fpc = before
    /\ x # <<>>
    /\ x' = shape
    /\ fpc' = after
    /\ UNCHANGED << x0, pipeline >>

\* x = F.relu(F.max_pool2d(self.conv1(x), 2))
Conv1Step == Layer("input", "conv1", conv1_pool(x))
\* x = F.relu(F.max_pool2d(self.conv2_drop(self.conv2(x)), 2))
Conv2Step == Layer("conv1", "conv2", conv2_pool(x))
\* x = x.view(-1, 320)
ViewStep == Layer("conv2", "view", flatten(x))
\* x = F.relu(self.fc1(x)); x = F.dropout(x, training=self.training)
Fc1Step == Layer("view", "fc1", fc1(x))
\* x = self.fc2(x); return F.log_softmax(x, dim=1)
Fc2Step == Layer("fc1", "return", fc2(x))

(***************************************************************************)
(* Specifications.                                                          *)
(***************************************************************************)
Next ==
    \/ DefineNet \/ Settings
    \/ TrainCall \/ TrainBatch \/ TestCall \/ TestBatch \/ TestReturn \/ EpochsDone
    \/ Save \/ Load \/ Export \/ OnnxLoad \/ Prepare \/ Explore
    \/ Run1 \/ Run2 \/ ExportGraph
    \/ Raise

\* the notebook as written
Spec == Init /\ [][Next]_vars

\* the notebook with other lists handed to parse_args
InitArgs == (\E av \in {NotebookArgv} \cup OtherArgv : Start(av)) /\ x0 = <<>> /\ x = <<>> /\ fpc = "idle"
SpecArgs == InitArgs /\ [][Next]_vars

\* Net.forward alone, on inputs N x 1 x 28 x 28
InitForward ==
    /\ Start(NotebookArgv)
    /\ x0 \in { <<n, 1, 28, 28>> : n \in 1..MaxBatch }
    /\ x = x0
    /\ fpc = "input"
NextForward == Conv1Step \/ Conv2Step \/ ViewStep \/ Fc1Step \/ Fc2Step
SpecForward == InitForward /\ [][NextForward]_vars

(***************************************************************************)
(* Properties.                                                             *)
(***************************************************************************)
\* the values the notebook hands to parse_args (line 140)
NotebookEpochs == 60
NotebookLogInterval == 300

Order == << "define", "settings", "train", "test", "save", "load", "export",
            "onnx_load", "prepare", "explore", "run1", "run2", "export_graph" >>
PosOf(at) == CHOOSE i \in DOMAIN Order : Order[i] = at
SingleCalls == {"save", "load", "export", "onnx_load", "prepare", "export_graph"}
Producer(path) == CASE path = PthPath -> "save"
                    [] path = OnnxPath -> "export"
                    [] path = PbPath -> "export_graph"

\* C1: in a run of the cells from top to bottom every artifact is consumed
\* only after the stage that produces it has completed: the checkpoint is
\* loaded only after torch.save wrote it, the ONNX file only after
\* torch.onnx.export wrote it, tf_rep.run and tf_rep.export_graph happen only
\* after prepare() returned tf_rep, and torch.save happens only after the
\* last epoch has finished.
C1_ConsumedAfterProduced ==
    /\ calls["load"] > 0 =>
          (returned["save"] = 1 /\ PthPath \in written)
    /\ returned["load"] > 0 =>
          (files[PthPath].kind = "state_dict" /\ files[PthPath].init = "model")
    /\ calls["onnx_load"] > 0 =>
          (returned["export"] = 1 /\ OnnxPath \in written)
    /\ (calls["run"] > 0 \/ calls["export_graph"] > 0) =>
          (returned["prepare"] = 1 /\ tf_rep.kind = "TensorflowRep")
    /\ calls["save"] > 0 =>
          (/\ epoch = args.epochs
           /\ returned["train"] = args.epochs
           /\ returned["test"] = args.epochs)

C1_Witness ==
    /\ pc = "done"
    /\ returned["load"] = 1 /\ returned["onnx_load"] = 1
    /\ returned["run"] = 2 /\ returned["export_graph"] = 1

\* C2: when a stage raises, the run stops there: the kernel is at no further
\* statement, no call of a later stage was made, no artifact of a later
\* stage was written, and no statement executes afterwards (no retry, no
\* fallback).
C2_FailurePropagates ==
    /\ [](raised # "" =>
            /\ pc = "failed"
            /\ \A c \in SingleCalls :
                  /\ PosOf(c) > PosOf(raised) => calls[c] = 0
                  /\ c = raised => (calls[c] = 1 /\ returned[c] = 0)
            /\ \A p \in OutputPaths :
                  PosOf(Producer(p)) > PosOf(raised) => p \notin written
            /\ PosOf(raised) < PosOf("train") => (calls["train"] = 0 /\ calls["test"] = 0)
            /\ raised = "train" => (calls["train"] = epoch /\ calls["test"] = epoch - 1)
            /\ raised = "test" => (calls["train"] = epoch /\ calls["test"] = epoch)
            /\ PosOf(raised) < PosOf("run1") => calls["run"] = 0
            /\ raised = "run1" => calls["run"] <= 1
            /\ calls["run"] <= 2)
    /\ [][raised = ""]_vars

C2_Witness ==
    /\ pc = "failed"
    /\ raised = "export"
    /\ PthPath \in written
    /\ PbPath \notin written

\* C3: with --epochs 60 the driver runs epochs 1, 2, ..., 60 in this order,
\* in every epoch train() has gone through the whole training loader before
\* test() starts, test() has gone through the whole test loader before the
\* next train() starts, the last call is a test(), and the loop comes to an
\* end: while it runs the next statement of the driver can execute, and
\* every statement brings the end of the loop nearer.
C3_EpochsInv ==
    /\ args # None => args.epochs = NotebookEpochs
    /\ epoch = calls["train"]
    /\ epoch <= NotebookEpochs
    /\ pc = "train" =>
          (/\ returned["train"] = epoch - 1
           /\ calls["test"] = epoch - 1 /\ returned["test"] = epoch - 1
           /\ last_call = "train"
           /\ model.steps = (epoch - 1) * LoaderLen(train_loader) + batch_idx)
    /\ pc = "test" =>
          (/\ returned["train"] = epoch
           /\ calls["test"] = epoch /\ returned["test"] = epoch - 1
           /\ last_call = "test"
           /\ model.steps = epoch * LoaderLen(train_loader))
    /\ pc = "epochs" =>
          (/\ returned["train"] = epoch
           /\ returned["test"] = epoch
           /\ (epoch > 0 => last_call = "test"))
    /\ pc = "save" =>
          (/\ epoch = NotebookEpochs
           /\ calls["train"] = NotebookEpochs /\ returned["train"] = NotebookEpochs
           /\ calls["test"] = NotebookEpochs /\ returned["test"] = NotebookEpochs
           /\ last_call = "test")

\* the statements of the driver left to execute before the loop is over
PerEpoch == LoaderLen(train_loader) + LoaderLen(test_loader) + 3
StepsLeft ==
    CASE pc = "epochs" -> (NotebookEpochs - epoch) * PerEpoch + 1
      [] pc = "train" -> (LoaderLen(train_loader) - batch_idx) + LoaderLen(test_loader) + 2
                          + (NotebookEpochs - epoch) * PerEpoch + 1
      [] pc = "test" -> (LoaderLen(test_loader) - batch_idx) + 1
                          + (NotebookEpochs - epoch) * PerEpoch + 1
      [] OTHER -> 0

\* the loop statement at pc can execute: the batch counter is within the
\* loader and the network accepts the batch
CanStep(loader) ==
    /\ batch_idx <= LoaderLen(loader)
    /\ batch_idx < LoaderLen(loader) =>
          forward(<< BatchLen(loader, batch_idx), 1, 28, 28 >>) = << BatchLen(loader, batch_idx), 10 >>

C3_SixtyEpochs ==
    /\ []C3_EpochsInv
    /\ [][epoch' = epoch \/ epoch' = epoch + 1]_vars
    /\ [](pc \in {"epochs", "train", "test"} => StepsLeft > 0)
    /\ [](pc = "train" => CanStep(train_loader))
    /\ [](pc = "test" => CanStep(test_loader))
    /\ [][(pc \in {"epochs", "train", "test"}) => (StepsLeft > StepsLeft')]_vars

C3_Witness ==
    /\ pc = "save"
    /\ calls["test"] = NotebookEpochs
    /\ model.steps = NotebookEpochs * LoaderLen(train_loader)

\* C4: a status line of train() is printed only once 300 further batches
\* have been processed since the previous status line (or since the start
\* of the epoch), and none before 300 batches of the epoch were processed.
C4_StatusEvery300 ==
    status.lines > 0 =>
        (status.gap >= NotebookLogInterval /\ status.at >= NotebookLogInterval)

\* C5: when torch.onnx.export is called on trained_model, the notebook has
\* put trained_model in evaluation mode (self.training is false).
C5_ExportInEvalMode ==
    pc = "export" => ~trained_model.training

\* C6: training runs on the GPU exactly when CUDA is available and --no-cuda
\* was not given, and on the CPU otherwise; both loaders get num_workers=1
\* and pin_memory=True exactly when the GPU is used and no extra options
\* otherwise; with the notebook's arguments the device is the GPU iff CUDA
\* is available.
NoCudaGiven == \E i \in DOMAIN argv : argv[i].flag = "--no-cuda"
OnGpu == cuda_available /\ ~NoCudaGiven
GpuOptions == {<<"num_workers", 1>>, <<"pin_memory", 1>>}

C6_DeviceChoice ==
    args # None =>
        /\ use_cuda = OnGpu
        /\ device = (IF OnGpu THEN "cuda" ELSE "cpu")
        /\ pc \in {"epochs", "train", "test", "save"} => model.device = device
        /\ train_loader.opts = (IF OnGpu THEN GpuOptions ELSE {})
        /\ test_loader.opts = (IF OnGpu THEN GpuOptions ELSE {})
        /\ argv = NotebookArgv => ((device = "cuda") <=> cuda_available)

C6_Witness ==
    /\ pc = "train"
    /\ NoCudaGiven
    /\ cuda_available
    /\ device = "cpu"
    /\ batch_idx > 0

\* C7: each inference call hands tf_rep.run an array of shape (1, 1, 28, 28),
\* the shape of the dummy input of the export; exactly two calls are made,
\* for two.png and then three.png, both on the same imported
\* representation and both before export_graph.
C7_TwoInferenceCalls ==
    /\ \A i \in DOMAIN runs :
          /\ runs[i].shape = <<1, 1, 28, 28>>
          /\ runs[i].shape = dummy_input
          /\ runs[i].rep = tf_rep
          /\ runs[i].rep = runs[1].rep
    /\ Len(runs) = calls["run"]
    /\ Len(runs) <= 2
    /\ Len(runs) >= 1 => runs[1].path = "assets/two.png"
    /\ Len(runs) >= 2 => runs[2].path = "assets/three.png"
    /\ (pc = "export_graph" \/ calls["export_graph"] > 0) =>
          (Len(runs) = 2 /\ returned["run"] = 2)

C7_Witness ==
    /\ pc = "done"
    /\ Len(runs) = 2
    /\ PbPath \in written

\* C8: for every batch size N >= 1, an input N x 1 x 28 x 28 goes through
\* Net.forward as 28 -> 24 -> 12 -> 8 -> 4, reaches the flatten step with
\* 20 x 4 x 4 = 320 features per sample, view(-1, 320) yields N rows, and
\* the output is N x 10.
C8_ForwardShapes ==
    fpc # "idle" =>
        LET N == x0[1]
        IN  /\ N >= 1
            /\ Conv2d(x0, 1, 10, 5) = <<N, 10, 24, 24>>
            /\ conv1_pool(x0) = <<N, 10, 12, 12>>
            /\ Conv2d(conv1_pool(x0), 10, 20, 5) = <<N, 20, 8, 8>>
            /\ fpc = "conv1" => x = <<N, 10, 12, 12>>
            /\ fpc = "conv2" => (x = <<N, 20, 4, 4>> /\ Numel(x) = N * 320)
            /\ fpc = "view" => x = <<N, 320>>
            /\ fpc = "fc1" => x = <<N, 50>>
            /\ fpc = "return" => (x = <<N, 10>> /\ x = forward(x0))

C8_Witness ==
    /\ fpc = "return"
    /\ x0[1] > 1
    /\ x = << x0[1], 10 >>

\* C9: the parameters of the network change only in optimizer.step() inside
\* train(); test(), torch.save, the reload and the export leave them as
\* they are, and the parameters of trained_model that are exported to ONNX
\* are those of model after the last optimizer step of epoch 60.
Params(m) == << m.init, m.steps >>
Trained == << "model", NotebookEpochs * LoaderLen(train_loader) >>

C9_ParamsInv ==
    /\ returned["save"] > 0 => Params(files[PthPath]) = Trained
    /\ returned["load"] > 0 => Params(trained_model) = Trained
    /\ returned["export"] > 0 =>
          (/\ files[OnnxPath].kind = "onnx"
           /\ Params(files[OnnxPath]) = Trained
           /\ Params(trained_model) = Trained)
    /\ model.kind = "Net" /\ pc \in {"save", "load", "export", "onnx_load"} =>
          Params(model) = Trained

C9_ParametersOnlyByStep ==
    /\ []C9_ParamsInv
    /\ [][(model.kind = "Net" /\ model'.kind = "Net" /\ Params(model)' # Params(model)) =>
            (/\ pc = "train" /\ pc' = "train"
             /\ batch_idx' = batch_idx + 1
             /\ model'.steps = model.steps + 1)]_vars
    /\ [][(trained_model.kind = "Net" /\ trained_model'.kind = "Net") =>
            Params(trained_model)' = Params(trained_model)]_vars

C9_Witness ==
    /\ pc = "onnx_load"
    /\ returned["export"] = 1
    /\ files[PthPath] # Earlier
    /\ files[OnnxPath].steps > 0

====
